---- MODULE Spec2Model ----
(***************************************************************************)
(* Model of evn/cli/auto_click_decorator.py: the annotation resolver       *)
(* _extract_annotation, the decorator synthesizer                          *)
(* _generate_click_decorator and the orchestrator                          *)
(* auto_click_decorate_command, together with the wrapper it returns.      *)
(*                                                                         *)
(* Python values are modelled as follows.                                  *)
(*   - None and inspect.Parameter.empty (as a default) are the empty       *)
(*     tuple <<>>; a present value v is the one-element tuple <<v>>.       *)
(*   - identifiers are tuples of one-character strings, so that            *)
(*     str.replace and str.startswith are computed, not assumed.           *)
(*   - a type object or annotation is a record [origin, type, args]:       *)
(*     typing.get_origin is .origin and typing.get_args is .args.          *)
(*   - a click decorator is the record of the call that built it: which    *)
(*     factory (option / argument), the declared name and each keyword,    *)
(*     a keyword that was not passed being <<>>.                           *)
(***************************************************************************)
EXTENDS Integers, Sequences, FiniteSets, TLC

VARIABLES
    fn_in,            \* the callable as passed to auto_click_decorate_command
    fn,               \* the local variable fn (the callable being decorated)
    type_handlers,    \* the registry passed in
    pc,               \* position in the call
    manual_params,    \* local set manual_params
    params,           \* local list params (after the 'self' skip)
    idx,              \* loop position (1-based) of the running for loop
    decorators,       \* local list decorators
    order,            \* the sequence reversed(decorators) being iterated
    error,            \* the exception raised, <<>> when none
    internal_params,  \* local list internal_params
    call              \* the last invocation of the returned callable

vars == <<fn_in, fn, type_handlers, pc, manual_params, params, idx,
          decorators, order, error, internal_params, call>>

(***************************************************************************)
(* Bounds                                                                  *)
(***************************************************************************)
\* longest signature handed to the orchestrator
MaxParams == 2
\* longest metadata tuple of an Annotated[...] annotation
MaxMeta == 1

(***************************************************************************)
(* Python values                                                           *)
(***************************************************************************)
None == <<>>
Some(x) == <<x>>

\* a plain type object such as bool, int, or inspect.Parameter.empty
TypeObj(t) == [origin |-> "None", type |-> t, args |-> <<>>]
\* typing.Annotated[base, *meta]
AnnotatedObj(base, meta) ==
    [origin |-> "Annotated", type |-> "Annotated", args |-> <<TypeObj(base)>> \o meta]

bool == TypeObj("bool")

RECURSIVE Repeat(_, _)
Repeat(x, n) == IF n = 0 THEN <<>> ELSE <<x>> \o Repeat(x, n - 1)

\* identifiers used as parameter names
SelfName == <<"s", "e", "l", "f">>
CtxName == <<"_", "c">>
AbName == <<"a", "_", "b">>
NName == <<"n">>
Names == {SelfName, CtxName, AbName, NName}

\* metadata tuples of length 1..MaxMeta
MetaTuples == {Repeat("m", k) : k \in 1..MaxMeta}

\* inspect.Parameter: name, annotation, default (<<>> is Parameter.empty)
Param(name, annotation, default) ==
    [name |-> name, annotation |-> annotation, default |-> default]

(***************************************************************************)
(* Input domains                                                           *)
(***************************************************************************)
\* annotations and defaults given to the synthesizer on its own
GenAnnotations ==
    {TypeObj("empty"), TypeObj("bool"), TypeObj("int")}
    \cup {AnnotatedObj(b, m) : b \in {"bool", "int"}, m \in MetaTuples}
GenDefaults == {None, Some("x"), Some("y")}
GenParams ==
    {Param(n, a, d) : n \in Names, a \in GenAnnotations, d \in GenDefaults}
GenRegistries == SUBSET {"empty", "bool", "int"}

\* annotations and defaults of the signatures given to the orchestrator
SigAnnotations == {TypeObj("bool"), TypeObj("int")}
SigDefaults == {None, Some("x")}
SigParams ==
    {Param(n, a, d) : n \in Names, a \in SigAnnotations, d \in SigDefaults}
SigRegistries == SUBSET {"bool", "int"}

RECURSIVE Signatures(_)
\* all parameter lists of exactly n parameters with pairwise distinct names
Signatures(n) ==
    IF n = 0 THEN {<<>>}
    ELSE {Append(s, p) : s \in Signatures(n - 1), p \in SigParams}

DistinctNames(s) ==
    \A j, k \in 1..Len(s) : j # k => s[j].name # s[k].name

AllSignatures ==
    {s \in UNION {Signatures(n) : n \in 0..MaxParams} : DistinctNames(s)}

(***************************************************************************)
(* Type-handler registry (evn.cli.click_type_handler.ClickTypeHandlers)    *)
(***************************************************************************)
\* ClickTypeHandlers.typehint_to_click_paramtype: the descriptor for the
\* base type when the registry has a handler for it, else None
typehint_to_click_paramtype(handlers, basetype, metadata) ==
    IF basetype.type \in handlers
    THEN Some([paramtype |-> basetype.type, metadata |-> metadata])
    ELSE None

\* truth value of the registry: false exactly when it is empty
registry_truthy(handlers) == handlers # {}

(***************************************************************************)
(* _extract_annotation                                                     *)
(***************************************************************************)
_extract_annotation(annotation) ==
    IF annotation.origin = "Annotated" /\ annotation.args # <<>>
    THEN [basetype |-> annotation.args[1],
          annotation |-> Some(annotation),
          metadata |-> Some(Tail(annotation.args))]
    ELSE [basetype |-> annotation, annotation |-> None, metadata |-> None]

\* truth value of the metadata: None and the empty tuple are false
metadata_truthy(metadata) == metadata # None /\ metadata[1] # <<>>

(***************************************************************************)
(* click.option / click.argument                                           *)
(***************************************************************************)
click_option(decl, is_flag, default, type, show_default) ==
    [kind |-> "option", decl |-> decl, is_flag |-> is_flag,
     default |-> default, type |-> type, show_default |-> show_default]

click_argument(decl, type) ==
    [kind |-> "argument", decl |-> decl, is_flag |-> None,
     default |-> None, type |-> type, show_default |-> None]

\* str.replace(old, new) for one-character old and new
str_replace(s, old, new) ==
    [k \in 1..Len(s) |-> IF s[k] = old THEN new ELSE s[k]]

\* str.startswith(prefix)
str_startswith(s, prefix) ==
    /\ Len(s) >= Len(prefix)
    /\ SubSeq(s, 1, Len(prefix)) = prefix

\* variant that forgets the underscore replacement
option_name_verbatim(name) == <<"-", "-">> \o name
\* f"--{name.replace('_', '-')}"
option_name(name) == <<"-", "-">> \o str_replace(name, "_", "-")

(***************************************************************************)
(* _generate_click_decorator                                               *)
(***************************************************************************)
\* variant that takes every parameter to have a default
has_default_always(param) == TRUE
\* has_default = (param.default != inspect.Parameter.empty)
has_default(param) == param.default # None

\* variant that forgets the 'and type_handlers' conjunct
unresolvable_any_registry(param_type, handlers) == param_type = None
\* not param_type and type_handlers
unresolvable(param_type, handlers) ==
    param_type = None /\ registry_truthy(handlers)

\* returns [error, deco]; exactly one of the two is not None
_generate_click_decorator(name, param, handlers) ==
    LET ex == _extract_annotation(param.annotation)
        basetype == ex.basetype
        annotation == ex.annotation
        metadata == ex.metadata
        param_type == typehint_to_click_paramtype(handlers, basetype, metadata)
    IN  IF unresolvable(param_type, handlers)
        THEN [error |-> Some([type |-> "ValueError", basetype |-> Some(basetype),
                              annotation |-> annotation, metadata |-> metadata]),
              deco |-> None]
        ELSE [error |-> None,
              deco |-> Some(
                IF basetype = bool /\ ~metadata_truthy(metadata)
                THEN click_option(option_name(name), Some(TRUE),
                                  Some(param.default), None, None)
                ELSE IF ~has_default(param) /\ param_type # None
                THEN click_argument(name, param_type)
                ELSE IF ~has_default(param)
                THEN click_argument(name, None)
                ELSE click_option(option_name(name),
                                  IF annotation # None /\ annotation[1] = bool
                                  THEN Some(TRUE) ELSE None,
                                  Some(param.default),
                                  param_type,
                                  Some(TRUE)))]

(***************************************************************************)
(* auto_click_decorate_command                                             *)
(***************************************************************************)
\* variant without the isinstance check
never_a_command(f) == FALSE
\* isinstance(fn, click.Command)
is_click_command(f) == f.isCommand

\* names p.name of the entries of fn.__click_params__ that have a truthy
\* name; an entry without one is <<>>, a callable without the attribute has
\* no entries
collect_manual_params(f) == {p[1] : p \in {q \in f.click_params : q # None}}

\* params = list(sig.parameters.items()), minus a leading "self"
enumerate_params(f) ==
    IF f.params # <<>> /\ f.params[1].name = SelfName
    THEN Tail(f.params)
    ELSE f.params

\* decorator(fn): click records the parameter on the callable and returns
\* the same callable
apply_decorator(deco, f) == [f EXCEPT !.applied = Append(@, deco)]

\* variant without the leading-underscore test
skipped_only_if_manual(name, manual) == name \in manual
\* the two 'continue' tests of the generation loop
skipped(name, manual) == str_startswith(name, <<"_">>) \/ name \in manual

\* variant that applies each decorator as soon as it is generated
loop_body_eager(param, handlers, manual, decos, f) ==
    IF skipped(param.name, manual)
    THEN [error |-> None, decorators |-> decos, fn |-> f]
    ELSE LET r == _generate_click_decorator(param.name, param, handlers)
         IN  IF r.error # None
             THEN [error |-> r.error, decorators |-> decos, fn |-> f]
             ELSE [error |-> None,
                   decorators |-> Append(decos, r.deco[1]),
                   fn |-> apply_decorator(r.deco[1], f)]
\* one iteration of 'for name, param in params'
loop_body(param, handlers, manual, decos, f) ==
    IF skipped(param.name, manual)
    THEN [error |-> None, decorators |-> decos, fn |-> f]
    ELSE LET r == _generate_click_decorator(param.name, param, handlers)
         IN  IF r.error # None
             THEN [error |-> r.error, decorators |-> decos, fn |-> f]
             ELSE [error |-> None,
                   decorators |-> Append(decos, r.deco[1]),
                   fn |-> f]

\* variant that iterates the list in generation order
not_reversed(s) == s
\* reversed(decorators)
reversed(s) == [k \in 1..Len(s) |-> s[Len(s) - k + 1]]

\* the list comprehension over orig_sig.parameters: the names that start
\* with "_" and have no default, in signature order
RECURSIVE find_internal_params(_)
find_internal_params(sig) ==
    IF sig = <<>> THEN <<>>
    ELSE (IF str_startswith(Head(sig).name, <<"_">>) /\ Head(sig).default = None
          THEN <<Head(sig).name>> ELSE <<>>)
         \o find_internal_params(Tail(sig))

(***************************************************************************)
(* Calling the returned callable                                           *)
(***************************************************************************)
SeqToSet(s) == {s[k] : k \in 1..Len(s)}

\* Python's binding of a call f(*args, **kwargs) to the signature sig:
\* args is a tuple of values, kwargs a function from names to values
py_call(sig, args, kwargs) ==
    LET names == [j \in 1..Len(sig) |-> sig[j].name]
        bad ==
            \/ Len(args) > Len(sig)
            \/ \E k \in DOMAIN kwargs : k \notin SeqToSet(names)
            \/ \E j \in 1..Len(sig) : j <= Len(args) /\ names[j] \in DOMAIN kwargs
            \/ \E j \in 1..Len(sig) :
                  /\ j > Len(args)
                  /\ names[j] \notin DOMAIN kwargs
                  /\ sig[j].default = None
    IN  IF bad
        THEN [status |-> "TypeError", received |-> <<>>]
        ELSE [status |-> "returned",
              received |-> [j \in 1..Len(sig) |->
                               IF j <= Len(args) THEN args[j]
                               ELSE IF names[j] \in DOMAIN kwargs THEN kwargs[names[j]]
                               ELSE sig[j].default[1]]]

\* wrapper(*args, **kwargs): add name -> None for every internal parameter
\* that is not a key of kwargs, then call original_fn
wrapper(sig, internal, args, kwargs) ==
    LET missing == {n \in SeqToSet(internal) : n \notin DOMAIN kwargs}
        kwargs2 == [n \in (DOMAIN kwargs) \cup missing |->
                       IF n \in DOMAIN kwargs THEN kwargs[n] ELSE "None"]
    IN  py_call(sig, args, kwargs2)

\* calling whatever auto_click_decorate_command returned
call_returned(f, internal, args, kwargs) ==
    IF f.wrapped
    THEN wrapper(f.params, internal, args, kwargs)
    ELSE py_call(f.params, args, kwargs)

(***************************************************************************)
(* State machine of one call of auto_click_decorate_command followed by    *)
(* one invocation of what it returned                                      *)
(***************************************************************************)
NoCall == [status |-> "none", args |-> <<>>, kwnames |-> {}, received |-> <<>>]

Callable(cmd, sig, manual) ==
    [isCommand |-> cmd, params |-> sig, click_params |-> manual,
     applied |-> <<>>, wrapped |-> FALSE]

\* the __click_params__ a caller may have attached by hand
ManualSets == {{}, {Some(NName), None}}

Locals0 ==
    /\ manual_params = {}
    /\ params = <<>>
    /\ idx = 1
    /\ decorators = <<>>
    /\ order = <<>>
    /\ error = None
    /\ internal_params = <<>>
    /\ call = NoCall

Init ==
    /\ fn_in \in {Callable(c, s, m) : c \in BOOLEAN, s \in AllSignatures, m \in ManualSets}
    /\ fn = fn_in
    /\ type_handlers \in SigRegistries
    /\ pc = "start"
    /\ Locals0

\* the isinstance check, the collection of manual_params and the 'self' skip
Enter ==
    /\ pc = "start"
    /\ IF is_click_command(fn)
       THEN /\ pc' = "raised"
            /\ error' = Some([type |-> "RuntimeError", basetype |-> None,
                              annotation |-> None, metadata |-> None])
            /\ UNCHANGED <<manual_params, params>>
       ELSE /\ pc' = "generate"
            /\ manual_params' = collect_manual_params(fn)
            /\ params' = enumerate_params(fn)
            /\ UNCHANGED error
    /\ UNCHANGED <<fn_in, fn, type_handlers, idx, decorators, order,
                   internal_params, call>>

\* one iteration of the generation loop
GenerateStep ==
    /\ pc = "generate"
    /\ idx <= Len(params)
    /\ LET r == loop_body(params[idx], type_handlers, manual_params, decorators, fn)
       IN  /\ error' = r.error
           /\ decorators' = r.decorators
           /\ fn' = r.fn
           /\ pc' = IF r.error # None THEN "raised" ELSE "generate"
           /\ idx' = IF r.error # None THEN idx ELSE idx + 1
    /\ UNCHANGED <<fn_in, type_handlers, manual_params, params, order,
                   internal_params, call>>

\* the generation loop is exhausted: 'for decorator in reversed(decorators)'
BeginApply ==
    /\ pc = "generate"
    /\ idx > Len(params)
    /\ order' = reversed(decorators)
    /\ idx' = 1
    /\ pc' = "apply"
    /\ UNCHANGED <<fn_in, fn, type_handlers, manual_params, params,
                   decorators, error, internal_params, call>>

\* fn = decorator(fn)
ApplyStep ==
    /\ pc = "apply"
    /\ idx <= Len(order)
    /\ fn' = apply_decorator(order[idx], fn)
    /\ idx' = idx + 1
    /\ UNCHANGED <<fn_in, type_handlers, pc, manual_params, params,
                   decorators, order, error, internal_params, call>>

\* internal_params, the optional wrapper, and the return
Wrap ==
    /\ pc = "apply"
    /\ idx > Len(order)
    /\ internal_params' = find_internal_params(fn.params)
    /\ fn' = [fn EXCEPT !.wrapped = (find_internal_params(fn.params) # <<>>)]
    /\ pc' = "done"
    /\ UNCHANGED <<fn_in, type_handlers, manual_params, params, idx,
                   decorators, order, error, call>>

\* one invocation of the returned callable: the first nargs parameters are
\* supplied by position (value "p"), the names in kw by keyword (value "k")
Invoke ==
    /\ pc = "done"
    /\ \E nargs \in 0..Len(fn.params),
          kw \in SUBSET {fn.params[j].name : j \in 1..Len(fn.params)} :
          LET args == [j \in 1..nargs |-> "p"]
              kwargs == [n \in kw |-> "k"]
              r == call_returned(fn, internal_params, args, kwargs)
          IN  call' = [status |-> r.status, args |-> args, kwnames |-> kw,
                       received |-> r.received]
    /\ pc' = "called"
    /\ UNCHANGED <<fn_in, fn, type_handlers, manual_params, params, idx,
                   decorators, order, error, internal_params>>

Next ==
    \/ Enter
    \/ GenerateStep
    \/ BeginApply
    \/ ApplyStep
    \/ Wrap
    \/ Invoke

Spec == Init /\ [][Next]_vars

(***************************************************************************)
(* State machine of one call of _generate_click_decorator on its own       *)
(***************************************************************************)
GenInit ==
    /\ fn_in \in {Callable(FALSE, <<p>>, {}) : p \in GenParams}
    /\ fn = fn_in
    /\ type_handlers \in GenRegistries
    /\ pc = "gen_call"
    /\ Locals0

\* _generate_click_decorator(name, param, type_handlers)
GenCall ==
    /\ pc = "gen_call"
    /\ LET p == fn.params[1]
           r == _generate_click_decorator(p.name, p, type_handlers)
       IN  /\ error' = r.error
           /\ decorators' = r.deco
           /\ pc' = IF r.error # None THEN "gen_raised" ELSE "gen_returned"
    /\ UNCHANGED <<fn_in, fn, type_handlers, manual_params, params, idx,
                   order, internal_params, call>>

GenNext == GenCall

GenSpec == GenInit /\ [][GenNext]_vars

(***************************************************************************)
(* Vocabulary of the properties                                            *)
(***************************************************************************)
\* the CLI spelling expected for each identifier: "--" and the identifier
\* with every underscore written as a hyphen
CliName(n) ==
    CASE n = SelfName -> <<"-", "-", "s", "e", "l", "f">>
      [] n = CtxName -> <<"-", "-", "-", "c">>
      [] n = AbName -> <<"-", "-", "a", "-", "b">>
      [] n = NName -> <<"-", "-", "n">>

\* the decorator d binds the parameter called n
DecoratorOf(d, n) ==
    \/ d.kind = "argument" /\ d.decl = n
    \/ d.kind = "option" /\ d.decl = CliName(n)

\* the signature's parameters after dropping a first parameter named self
Enumerated(f) ==
    IF Len(f.params) > 0 /\ f.params[1].name = SelfName
    THEN SubSeq(f.params, 2, Len(f.params))
    ELSE f.params

Internal(p) == p.name[1] = "_"
ManuallyBound(f, p) == Some(p.name) \in f.click_params
Eligible(f, p) == ~Internal(p) /\ ~ManuallyBound(f, p)
EligibleSeq(f) == SelectSeq(Enumerated(f), LAMBDA p : Eligible(f, p))

\* the descriptor the registry returns for a parameter, None if it has none
Descriptor(p) ==
    LET ex == _extract_annotation(p.annotation)
    IN  typehint_to_click_paramtype(type_handlers, ex.basetype, ex.metadata)
BaseType(p) == _extract_annotation(p.annotation).basetype
HasMetadata(p) == p.annotation.origin = "Annotated" /\ Len(p.annotation.args) > 1

\* the single parameter and the result of a synthesizer call on its own
GenParam == fn.params[1]
GenEnded == pc \in {"gen_returned", "gen_raised"}

(***************************************************************************)
(* C1: a boolean-typed parameter without metadata always yields a flag     *)
(* option (click.option with is_flag=True), whatever the registry holds;   *)
(* the call never ends in the unresolvable-type error for it.              *)
(***************************************************************************)
C1_BoolAlwaysFlag ==
    (GenEnded /\ BaseType(GenParam) = bool /\ ~HasMetadata(GenParam))
    => /\ pc = "gen_returned"
       /\ decorators[1].kind = "option"
       /\ decorators[1].is_flag = Some(TRUE)

C8_DefaultedOption ==
    (GenEnded /\ GenParam.default # None /\ BaseType(GenParam) # bool
        /\ Descriptor(GenParam) # None)
    => /\ pc = "gen_returned"
       /\ decorators[1].kind = "option"
       /\ decorators[1].decl = CliName(GenParam.name)
       /\ decorators[1].default = Some(GenParam.default)
       /\ decorators[1].type = Descriptor(GenParam)
       /\ decorators[1].show_default = Some(TRUE)

C8_Witness ==
    /\ pc = "gen_returned"
    /\ GenParam.name = AbName
    /\ GenParam.default = Some("y")
    /\ BaseType(GenParam) = TypeObj("int")
    /\ Descriptor(GenParam) # None
    /\ decorators[1].decl = <<"-", "-", "a", "-", "b">>

(***************************************************************************)
(* C9: an option produced by the defaulted-option branch carries the flag  *)
(* directive (is_flag=True) if and only if the base type is boolean; so    *)
(* Annotated[bool, <metadata>] with a default gets the flag directive.     *)
(***************************************************************************)
C9_FlagIffBoolBase ==
    (pc = "gen_returned" /\ GenParam.default # None
        /\ ~(BaseType(GenParam) = bool /\ ~HasMetadata(GenParam)))
    => (decorators[1].is_flag = Some(TRUE) <=> BaseType(GenParam) = bool)

(***************************************************************************)
(* C3: after a normal return every enumerated parameter that is neither    *)
(* internal (leading "_") nor manually bound has exactly one generated     *)
(* decorator applied, every other enumerated parameter has none, and no    *)
(* other decorator was applied.                                            *)
(***************************************************************************)
AppliedFor(n) == {k \in 1..Len(fn.applied) : DecoratorOf(fn.applied[k], n)}

C3_OneDecoratorPerEligible ==
    pc \in {"done", "called"}
    => /\ \A j \in 1..Len(Enumerated(fn_in)) :
            LET p == Enumerated(fn_in)[j]
            IN  Cardinality(AppliedFor(p.name)) =
                    IF Eligible(fn_in, p) THEN 1 ELSE 0
       /\ Len(fn.applied) = Len(EligibleSeq(fn_in))

C3_Witness ==
    /\ pc = "done"
    /\ Len(fn.applied) = 1
    /\ \E j \in 1..Len(Enumerated(fn_in)) : Internal(Enumerated(fn_in)[j])
    /\ \E j \in 1..Len(Enumerated(fn_in)) : Eligible(fn_in, Enumerated(fn_in)[j])

(***************************************************************************)
(* C4: called on a callable that already is a click.Command, the           *)
(* orchestrator raises RuntimeError and has generated and applied no       *)
(* decorator: the callable is as it was passed in.                         *)
(***************************************************************************)
C4_CommandRejected ==
    (fn_in.isCommand /\ pc # "start")
    => /\ pc = "raised"
       /\ error # None
       /\ error[1].type = "RuntimeError"
       /\ decorators = <<>>
       /\ fn = fn_in

C4_Witness ==
    /\ pc = "raised"
    /\ fn_in.isCommand
    /\ type_handlers # {}
    /\ \E j \in 1..Len(Enumerated(fn_in)) : Eligible(fn_in, Enumerated(fn_in)[j])

(***************************************************************************)
(* C5: with a non-empty registry, a callable (not already a command) that  *)
(* has an eligible parameter resolving to no descriptor never gets past    *)
(* generation, and the call ends in ValueError naming the base type of the *)
(* first such parameter; with an empty registry ValueError is never       *)
(* raised and every eligible parameter is bound without a type descriptor. *)
(***************************************************************************)
Unresolved(f) ==
    SelectSeq(EligibleSeq(f), LAMBDA p : Descriptor(p) = None)

C7_ReverseOrder ==
    LET elig == EligibleSeq(fn_in)
    IN  /\ fn.applied # <<>> => Len(decorators) = Len(elig)
        /\ Len(fn.applied) <= Len(elig)
        /\ \A k \in 1..Len(fn.applied) :
              DecoratorOf(fn.applied[k], elig[Len(elig) - k + 1].name)
        /\ pc \in {"done", "called"} => Len(fn.applied) = Len(elig)

C7_Witness ==
    /\ pc = "done"
    /\ Len(fn.applied) >= 2
    /\ DecoratorOf(fn.applied[1], EligibleSeq(fn_in)[2].name)
    /\ DecoratorOf(fn.applied[2], EligibleSeq(fn_in)[1].name)

(***************************************************************************)
(* C10: when the orchestrator ends in ValueError no generated decorator    *)
(* has been applied, not even those synthesized before the offending       *)
(* parameter: the callable is as it was passed in.                         *)
(***************************************************************************)
C10_FailureAtomic ==
    (pc = "raised" /\ error[1].type = "ValueError")
    => /\ fn = fn_in
       /\ fn.applied = <<>>

C10_Witness ==
    /\ pc = "raised"
    /\ error[1].type = "ValueError"
    /\ decorators # <<>>
    /\ fn = fn_in

(***************************************************************************)
(* C6: for every internal parameter without default, an invocation of the  *)
(* returned callable that does not supply it delivers None for it, one     *)
(* that supplies it by keyword or by position delivers the supplied value, *)
(* and all other arguments pass through unchanged: the invocation behaves  *)
(* as a call of the original callable whose internal parameters default to *)
(* None.                                                                   *)
(***************************************************************************)
\* the signature with None as default of each internal parameter lacking one
NoneDefaulted(sig) ==
    [j \in 1..Len(sig) |->
        IF Internal(sig[j]) /\ sig[j].default = None
        THEN [sig[j] EXCEPT !.default = Some("None")]
        ELSE sig[j]]

Expected ==
    py_call(NoneDefaulted(fn_in.params), call.args, [n \in call.kwnames |-> "k"])

C6_InternalDefaultsToNone ==
    (pc = "called" /\ Expected.status = "returned")
    => /\ call.status = "returned"
       /\ call.received = Expected.received

====
